---- MODULE Spec2Model ----
(***************************************************************************)
(* RecordManager: the in-memory registry of tracked file records, their    *)
(* per-stage log entries and the queries over them.                        *)
(*                                                                         *)
(* Conventions of the model                                                *)
(*  - A JavaScript Map and a plain object used as a dictionary both keep   *)
(*    their keys in insertion order: each is a sequence of                 *)
(*    [key, value] pairs (Has / Get / Put below).                          *)
(*  - An Action is named by its enum member ("CLASSIFY_DONE"); the enum    *)
(*    values are pairwise distinct message strings, so the member name      *)
(*    identifies the object key.                                           *)
(*  - Arrays are heap objects: a record holds a reference into `arrays`.   *)
(*  - An optional object (LogEntry.error, a query result that may be       *)
(*    undefined / null) is a sequence of at most one element.              *)
(*  - The wall clock `now` counts sub-second ticks; a stored timestamp is  *)
(*    the clock formatted with second precision.                           *)
(*                                                                         *)
(* incrementAndLogTokenUsage: one invocation of the async function, in     *)
(* `usage`; what incrementTokenUsage resolves to and whether PostHogClient *)
(* returns a client are choices of the environment.                        *)
(***************************************************************************)
EXTENDS Integers, Sequences, FiniteSets, TLC

VARIABLES instance, managers, arrays, now, ret, left, hashes, pc, wm, wret, usage

vars == <<instance, managers, arrays, now, ret, left, hashes, pc, wm, wret, usage>>
wvars == <<pc, wm, wret>>

-----------------------------------------------------------------------------
(* Bounds and input sets *)

MaxOps == 3
MaxLogOps == 4
MaxTagOps == 4
MaxTime == 2
TicksPerSecond == 2
MaxTokens == 2
MaxRemaining == 3

Hashes == {"h1", "h2"}
Names == {"a.pdf", "b.pdf"}
Files == {"f1"}
Tags == {"x", "y"}
TagLists == {<<>>, <<"x">>, <<"x", "y">>, <<"x", "x">>}
Steps == {"CLASSIFY", "CLASSIFY_DONE", "APPEND", "APPEND_DONE"}
Messages == {"m"}
Stacks == {"undefined", "trace"}
StatusInputs == {"processing", "error"}
Strings == {"s1"}
Workers == {"w1", "w2", "w3"}
UserIds == {"u1", "u2"}
TokenAmounts == 1..MaxTokens
Remainings == 0..MaxRemaining

-----------------------------------------------------------------------------
(* Types of the program *)

Undefined == "undefined"
Null == "null"
None == <<>>
Some(x) == <<x>>

FileStatus == {"queued", "processing", "completed", "error", "bypassed"}

Action ==
  { "CLEANUP", "CLEANUP_DONE", "RENAME", "RENAME_DONE", "EXTRACT", "EXTRACT_DONE",
    "MOVING_ATTACHMENT", "MOVING_ATTACHEMENT_DONE", "CLASSIFY", "CLASSIFY_DONE",
    "TAGGING", "TAGGING_DONE", "APPLYING_TAGS", "APPLYING_TAGS_DONE",
    "RECOMMEND_NAME", "RECOMMEND_NAME_DONE", "CONTAINER", "APPEND", "APPEND_DONE",
    "ERROR_APPEND", "ERROR_COMPLETE", "ERROR_VALIDATE", "ERROR_CONTAINER",
    "CONTAINER_DONE", "APPLYING_NAME", "APPLYING_NAME_DONE", "FORMATTING",
    "FORMATTING_DONE", "MOVING", "MOVING_DONE", "COMPLETED", "VALIDATE",
    "VALIDATE_DONE", "ERROR_CLEANUP", "ERROR_RENAME", "ERROR_EXTRACT",
    "ERROR_MOVING_ATTACHMENT", "ERROR_CLASSIFY", "ERROR_TAGGING",
    "ERROR_FORMATTING", "ERROR_MOVING" }

-----------------------------------------------------------------------------
(* Insertion-ordered dictionaries (Map, object) *)

Keys(d) == {d[i].key : i \in DOMAIN d}
Has(d, k) == \E i \in DOMAIN d : d[i].key = k
IndexOf(d, k) == CHOOSE i \in DOMAIN d : d[i].key = k
Get(d, k) == d[IndexOf(d, k)].value
Put(d, k, v) ==
  IF Has(d, k)
    THEN [d EXCEPT ![IndexOf(d, k)] = [key |-> k, value |-> v]]
    ELSE Append(d, [key |-> k, value |-> v])
Values(d) == [i \in DOMAIN d |-> d[i].value]

-----------------------------------------------------------------------------
(* moment().format("YYYY-MM-DD HH:mm:ss") and moment(string) *)

Format(t) == t \div TicksPerSecond
Parse(s) == s * TicksPerSecond
IsAfter(a, b) == a > b

-----------------------------------------------------------------------------
(* RecordManager *)

(* `ret` holds what the last call of a RecordManager method returned: the hash  *)
(* for startTracking, undefined for the void methods.  The static getInstance  *)
(* returns the reference instance'.                                            *)
Void == Undefined

(* variant: the instance check is dropped, every call constructs a manager *)
getInstanceNew ==
  /\ managers' = Append(managers, <<>>)
  /\ instance' = Len(managers) + 1
  /\ UNCHANGED <<arrays, ret>>

getInstance ==
  /\ IF instance = 0
       THEN /\ managers' = Append(managers, <<>>)
            /\ instance' = Len(managers) + 1
       ELSE UNCHANGED <<managers, instance>>
  /\ UNCHANGED <<arrays, ret>>

(* variant: a new record starts as "processing" *)
NewRecordProcessing(hash, originalName, tagsRef) ==
  [ id |-> hash, file |-> Null, tags |-> tagsRef, classification |-> Undefined,
    formatted |-> FALSE, newPath |-> Undefined, newName |-> Undefined,
    originalName |-> originalName, logs |-> <<>>, status |-> "processing" ]

NewRecord(hash, originalName, tagsRef) ==
  [ id |-> hash, file |-> Null, tags |-> tagsRef, classification |-> Undefined,
    formatted |-> FALSE, newPath |-> Undefined, newName |-> Undefined,
    originalName |-> originalName, logs |-> <<>>, status |-> "queued" ]

(* variant: the presence check is dropped, the record is always (re)written *)
startTrackingReset(m, hash, originalName) ==
  /\ arrays' = Append(arrays, <<>>)
  /\ managers' = [managers EXCEPT ![m] =
       Put(@, hash, NewRecord(hash, originalName, Len(arrays) + 1))]
  /\ ret' = hash
  /\ UNCHANGED instance

startTracking(m, hash, originalName) ==
  /\ IF ~Has(managers[m], hash)
       THEN /\ arrays' = Append(arrays, <<>>)
            /\ managers' = [managers EXCEPT ![m] =
                 Put(@, hash, NewRecord(hash, originalName, Len(arrays) + 1))]
       ELSE UNCHANGED <<managers, arrays>>
  /\ ret' = hash
  /\ UNCHANGED instance

(* const record = this.records.get(hash); if (record) { record.<field> = v } *)
Update(m, hash, field, v) ==
  IF Has(managers[m], hash)
    THEN [managers EXCEPT ![m] =
           Put(@, hash, [Get(@, hash) EXCEPT ![field] = v])]
    ELSE managers

setFile(m, hash, file) ==
  /\ managers' = Update(m, hash, "file", file)
  /\ ret' = Void
  /\ UNCHANGED <<arrays, instance>>

(* variant: an unknown hash gets a record (upsert) *)
setStatusUpsert(m, hash, status) ==
  /\ IF Has(managers[m], hash)
       THEN /\ managers' = Update(m, hash, "status", status)
            /\ UNCHANGED arrays
       ELSE /\ arrays' = Append(arrays, <<>>)
            /\ managers' = [managers EXCEPT ![m] =
                 Put(@, hash, [NewRecord(hash, hash, Len(arrays) + 1)
                                 EXCEPT !.status = status])]
  /\ ret' = Void
  /\ UNCHANGED instance

setStatus(m, hash, status) ==
  /\ managers' = Update(m, hash, "status", status)
  /\ ret' = Void
  /\ UNCHANGED <<arrays, instance>>

getBaseAction(completedStep) ==
  CASE completedStep = "CLEANUP_DONE" -> "CLEANUP"
    [] completedStep = "RENAME_DONE" -> "RENAME"
    [] completedStep = "EXTRACT_DONE" -> "EXTRACT"
    [] completedStep = "MOVING_ATTACHEMENT_DONE" -> "MOVING_ATTACHMENT"
    [] completedStep = "CLASSIFY_DONE" -> "CLASSIFY"
    [] completedStep = "TAGGING_DONE" -> "TAGGING"
    [] completedStep = "APPLYING_TAGS_DONE" -> "APPLYING_TAGS"
    [] completedStep = "RECOMMEND_NAME_DONE" -> "RECOMMEND_NAME"
    [] completedStep = "APPLYING_NAME_DONE" -> "APPLYING_NAME"
    [] completedStep = "FORMATTING_DONE" -> "FORMATTING"
    [] completedStep = "MOVING_DONE" -> "MOVING"
    [] OTHER -> Undefined

(* variant: a completion whose start entry is missing is filed under the start key *)
addActionUnderBase(m, hash, step, completed) ==
  /\ managers' =
       IF Has(managers[m], hash)
         THEN LET record == Get(managers[m], hash)
                  baseAction == getBaseAction(step)
                  key == IF completed /\ baseAction # Undefined THEN baseAction ELSE step
              IN IF completed /\ baseAction # Undefined /\ Has(record.logs, baseAction)
                   THEN Update(m, hash, "logs",
                          Put(record.logs, baseAction,
                              [Get(record.logs, baseAction) EXCEPT !.completed = TRUE]))
                   ELSE Update(m, hash, "logs",
                          Put(record.logs, key,
                              [timestamp |-> Format(now), completed |-> completed,
                               error |-> None]))
         ELSE managers
  /\ ret' = Void
  /\ UNCHANGED <<arrays, instance>>

(* variant: a completion without a logged start marks the entry of its own key  *)
(* in place when there is one                                                   *)
addActionMarkOwn(m, hash, step, completed) ==
  /\ managers' =
       IF Has(managers[m], hash)
         THEN LET record == Get(managers[m], hash)
                  baseAction == getBaseAction(step)
              IN IF completed /\ baseAction # Undefined /\ Has(record.logs, baseAction)
                   THEN Update(m, hash, "logs",
                          Put(record.logs, baseAction,
                              [Get(record.logs, baseAction) EXCEPT !.completed = TRUE]))
                   ELSE IF completed /\ Has(record.logs, step)
                     THEN Update(m, hash, "logs",
                            Put(record.logs, step,
                                [Get(record.logs, step) EXCEPT !.completed = TRUE]))
                     ELSE Update(m, hash, "logs",
                            Put(record.logs, step,
                                [timestamp |-> Format(now), completed |-> completed,
                                 error |-> None]))
         ELSE managers
  /\ ret' = Void
  /\ UNCHANGED <<arrays, instance>>

(* variant: a start logged again updates the entry in place and keeps its error *)
addActionKeepError(m, hash, step, completed) ==
  /\ managers' =
       IF Has(managers[m], hash)
         THEN LET record == Get(managers[m], hash)
                  baseAction == getBaseAction(step)
              IN IF completed /\ baseAction # Undefined /\ Has(record.logs, baseAction)
                   THEN Update(m, hash, "logs",
                          Put(record.logs, baseAction,
                              [Get(record.logs, baseAction) EXCEPT !.completed = TRUE]))
                   ELSE Update(m, hash, "logs",
                          Put(record.logs, step,
                              [timestamp |-> Format(now), completed |-> completed,
                               error |-> IF Has(record.logs, step)
                                           THEN Get(record.logs, step).error
                                           ELSE None]))
         ELSE managers
  /\ ret' = Void
  /\ UNCHANGED <<arrays, instance>>

addAction(m, hash, step, completed) ==
  /\ managers' =
       IF Has(managers[m], hash)
         THEN LET record == Get(managers[m], hash)
                  baseAction == getBaseAction(step)
              IN IF completed /\ baseAction # Undefined /\ Has(record.logs, baseAction)
                   THEN Update(m, hash, "logs",
                          Put(record.logs, baseAction,
                              [Get(record.logs, baseAction) EXCEPT !.completed = TRUE]))
                   ELSE Update(m, hash, "logs",
                          Put(record.logs, step,
                              [timestamp |-> Format(now), completed |-> completed,
                               error |-> None]))
         ELSE managers
  /\ ret' = Void
  /\ UNCHANGED <<arrays, instance>>

Includes(arr, x) == \E i \in DOMAIN arr : arr[i] = x

addTag(m, hash, tag) ==
  /\ IF Has(managers[m], hash) /\ ~Includes(arrays[Get(managers[m], hash).tags], tag)
       THEN arrays' = [arrays EXCEPT ![Get(managers[m], hash).tags] = Append(@, tag)]
       ELSE UNCHANGED arrays
  /\ ret' = Void
  /\ UNCHANGED <<managers, instance>>

(* `tags` is the reference of the caller's array; the record keeps that reference *)
setTags(m, hash, tags) ==
  /\ managers' = Update(m, hash, "tags", tags)
  /\ ret' = Void
  /\ UNCHANGED instance

setClassification(m, hash, classification) ==
  /\ managers' = Update(m, hash, "classification", classification)
  /\ ret' = Void
  /\ UNCHANGED <<arrays, instance>>

setFormatted(m, hash, formatted) ==
  /\ managers' = Update(m, hash, "formatted", formatted)
  /\ ret' = Void
  /\ UNCHANGED <<arrays, instance>>

setNewPath(m, hash, newPath) ==
  /\ managers' = Update(m, hash, "newPath", newPath)
  /\ ret' = Void
  /\ UNCHANGED <<arrays, instance>>

(* variant: the new name is written over originalName *)
setNewNameOverOriginal(m, hash, newName) ==
  /\ managers' = Update(m, hash, "originalName", newName)
  /\ ret' = Void
  /\ UNCHANGED <<arrays, instance>>

setNewName(m, hash, newName) ==
  /\ managers' = Update(m, hash, "newName", newName)
  /\ ret' = Void
  /\ UNCHANGED <<arrays, instance>>

(* variant: the entry of the stage is deleted first, so the error entry is       *)
(* inserted last                                                                 *)
addErrorReinsert(m, hash, error) ==
  /\ managers' =
       IF Has(managers[m], hash)
         THEN Update(m, hash, "logs",
                Append(SelectSeq(Get(managers[m], hash).logs,
                                 LAMBDA e : e.key # error.action),
                       [key |-> error.action,
                        value |->
                          [timestamp |-> Format(now), completed |-> FALSE,
                           error |-> Some([message |-> error.message,
                                           stack |-> error.stack,
                                           action |-> error.action])]]))
         ELSE managers
  /\ ret' = Void
  /\ UNCHANGED <<arrays, instance>>

(* variant: the error is merged into the existing entry, which keeps its other fields *)
addErrorMerge(m, hash, error) ==
  /\ managers' =
       IF Has(managers[m], hash)
         THEN LET logs == Get(managers[m], hash).logs
                  err == Some([message |-> error.message, stack |-> error.stack,
                               action |-> error.action])
              IN Update(m, hash, "logs",
                   Put(logs, error.action,
                       IF Has(logs, error.action)
                         THEN [Get(logs, error.action) EXCEPT !.error = err]
                         ELSE [timestamp |-> Format(now), completed |-> FALSE,
                               error |-> err]))
         ELSE managers
  /\ ret' = Void
  /\ UNCHANGED <<arrays, instance>>

addError(m, hash, error) ==
  /\ managers' =
       IF Has(managers[m], hash)
         THEN Update(m, hash, "logs",
                Put(Get(managers[m], hash).logs, error.action,
                    [timestamp |-> Format(now), completed |-> FALSE,
                     error |-> Some([message |-> error.message, stack |-> error.stack,
                                     action |-> error.action])]))
         ELSE managers
  /\ ret' = Void
  /\ UNCHANGED <<arrays, instance>>

-----------------------------------------------------------------------------
(* Queries *)

getRecord(m, hash) ==
  IF Has(managers[m], hash) THEN Some(Get(managers[m], hash)) ELSE None

Truthy(opt) == opt # None

hasErrorsStep(m, hash, step) ==
  IF ~Has(managers[m], hash) THEN FALSE
  ELSE LET record == Get(managers[m], hash)
       IN Has(record.logs, step) /\ Truthy(Get(record.logs, step).error)

hasErrors(m, hash) ==
  IF ~Has(managers[m], hash) THEN FALSE
  ELSE LET logs == Values(Get(managers[m], hash).logs)
       IN \E i \in DOMAIN logs : Truthy(logs[i].error)

getStepLogs(m, hash, step) ==
  IF ~Has(managers[m], hash) THEN None
  ELSE LET record == Get(managers[m], hash)
       IN IF Has(record.logs, step) THEN Some(Get(record.logs, step)) ELSE None

RECURSIVE ReduceKeepLast(_, _, _)
(* variant: the comparison is dropped, every entry replaces `latest` *)
ReduceKeepLast(steps, i, latest) ==
  IF i > Len(steps) THEN latest ELSE ReduceKeepLast(steps, i + 1, steps[i].key)

RECURSIVE Reduce(_, _, _)
(* steps.reduce((latest, [action, log]) => ..., latest0), from index i on *)
Reduce(steps, i, latest) ==
  IF i > Len(steps) THEN latest
  ELSE Reduce(steps, i + 1,
         IF latest = Null
            \/ IsAfter(Parse(steps[i].value.timestamp), Parse(Get(steps, latest).timestamp))
           THEN steps[i].key
           ELSE latest)

getLastStep(m, hash) ==
  IF ~Has(managers[m], hash) THEN Null
  ELSE LET steps == Get(managers[m], hash).logs
       IN IF Len(steps) = 0 THEN Null ELSE Reduce(steps, 1, Null)

getAllRecords(m) == Values(managers[m])

LogHasError(entry) == Truthy(entry.value.error)

RecordHasError(record) == \E i \in DOMAIN record.logs : LogHasError(record.logs[i])

(* variant: the records whose status is "error" *)
getRecordsWithErrorsByStatus(m) ==
  SelectSeq(getAllRecords(m), LAMBDA record : record.status = "error")

getRecordsWithErrors(m) == SelectSeq(getAllRecords(m), RecordHasError)

(* variant: only the records whose entry of the step is completed *)
getRecordsByStepCompleted(m, step) ==
  SelectSeq(getAllRecords(m),
            LAMBDA record : Has(record.logs, step) /\ Get(record.logs, step).completed)

getRecordsByStep(m, step) ==
  SelectSeq(getAllRecords(m), LAMBDA record : Has(record.logs, step))

getStepErrors(m, hash) ==
  IF ~Has(managers[m], hash) THEN <<>>
  ELSE LET withError == SelectSeq(Get(managers[m], hash).logs, LogHasError)
       IN [i \in DOMAIN withError |->
             [action |-> withError[i].key, error |-> withError[i].value.error]]

(* variant: the first element instead of the last *)
getLastErrorFirst(m, hash) ==
  LET errors == getStepErrors(m, hash)
  IN IF Len(errors) > 0 THEN Some(errors[1]) ELSE None

getLastError(m, hash) ==
  LET errors == getStepErrors(m, hash)
  IN IF Len(errors) > 0 THEN Some(errors[Len(errors)]) ELSE None

-----------------------------------------------------------------------------
(* The callers: any sequence of calls on a manager obtained from getInstance *)

(* `left` is the number of calls the callers still make in this run, `hashes`   *)
(* the ids they make them with                                                  *)
Call == /\ left > 0
        /\ left' = left - 1
        /\ UNCHANGED <<usage, now, hashes, wvars>>

Managers == DOMAIN managers

GetInstance == getInstance /\ UNCHANGED <<usage, now, left, hashes, wvars>>

StartTracking ==
  \E m \in Managers, hash \in hashes, name \in Names :
    Call /\ startTracking(m, hash, name)

SetFile == \E m \in Managers, hash \in hashes, f \in Files : Call /\ setFile(m, hash, f)

SetStatus ==
  \E m \in Managers, hash \in hashes, s \in StatusInputs : Call /\ setStatus(m, hash, s)

AddAction ==
  \E m \in Managers, hash \in hashes, step \in Steps, completed \in BOOLEAN :
    Call /\ addAction(m, hash, step, completed)

AddTag == \E m \in Managers, hash \in hashes, t \in Tags : Call /\ addTag(m, hash, t)

(* the caller passes an array it already shares with the registry *)
SetTagsShared ==
  \E m \in Managers, hash \in hashes, ref \in DOMAIN arrays :
    Call /\ setTags(m, hash, ref) /\ UNCHANGED arrays

(* the caller passes a new array; one the registry does not keep is garbage *)
SetTagsFresh ==
  \E m \in Managers, hash \in hashes, list \in TagLists :
    /\ Call
    /\ setTags(m, hash, Len(arrays) + 1)
    /\ arrays' = IF Has(managers[m], hash) THEN Append(arrays, list) ELSE arrays

SetClassification ==
  \E m \in Managers, hash \in hashes, c \in Strings : Call /\ setClassification(m, hash, c)

SetFormatted ==
  \E m \in Managers, hash \in hashes, b \in BOOLEAN : Call /\ setFormatted(m, hash, b)

SetNewPath ==
  \E m \in Managers, hash \in hashes, p \in Strings : Call /\ setNewPath(m, hash, p)

SetNewName ==
  \E m \in Managers, hash \in hashes, n \in Strings : Call /\ setNewName(m, hash, n)

AddError ==
  \E m \in Managers, hash \in hashes, step \in Steps, msg \in Messages, stack \in Stacks :
    Call /\ addError(m, hash, [action |-> step, message |-> msg, stack |-> stack])

Tick == /\ now < MaxTime
        /\ now' = now + 1
        /\ UNCHANGED <<usage, instance, managers, arrays, ret, left, hashes, wvars>>

(* The class is loaded and no instance is constructed yet *)
(* incrementAndLogTokenUsage has not been called *)
NotInvoked ==
  [pc |-> "idle", args |-> None, outcome |-> None, client |-> Undefined,
   events |-> <<>>, result |-> None]

Loaded ==
  /\ instance = 0
  /\ managers = <<>>
  /\ arrays = <<>>
  /\ now = 0
  /\ ret = Void
  /\ pc = [w \in Workers |-> "idle"]
  /\ wm = [w \in Workers |-> 0]
  /\ wret = [w \in Workers |-> Undefined]
  /\ usage = NotInvoked

Init == Loaded /\ left = MaxOps /\ hashes = Hashes

Next ==
  \/ GetInstance
  \/ StartTracking
  \/ SetFile
  \/ SetStatus
  \/ AddAction
  \/ AddTag
  \/ SetTagsShared
  \/ SetTagsFresh
  \/ SetClassification
  \/ SetFormatted
  \/ SetNewPath
  \/ SetNewName
  \/ AddError
  \/ Tick

Spec == Init /\ [][Next]_vars

(* The callers of the stage event log of one record: tracking, actions, errors, *)
(* the clock                                                                    *)
InitLog == Loaded /\ left = MaxLogOps /\ hashes = {"h1"}

NextLog ==
  \/ GetInstance
  \/ StartTracking
  \/ AddAction
  \/ AddError
  \/ Tick

SpecLog == InitLog /\ [][NextLog]_vars

(* The callers of the tag methods, on both ids *)
InitTags == Loaded /\ left = MaxTagOps /\ hashes = Hashes

NextTags ==
  \/ GetInstance
  \/ StartTracking
  \/ AddTag
  \/ SetTagsShared
  \/ SetTagsFresh

SpecTags == InitTags /\ [][NextTags]_vars

-----------------------------------------------------------------------------
(* Concurrent workers on one id.  The callers are tasks of one JavaScript        *)
(* thread: every method of RecordManager is synchronous, so a call runs to       *)
(* completion and the tasks interleave between calls only.  Each worker gets    *)
(* the instance, tracks SharedHash under its own name, then adds its own tag    *)
(* and logs its own step on the id it was given back.                           *)

SharedHash == "h1"
WorkerName == [w \in Workers |-> CASE w = "w1" -> "a.pdf" [] w = "w2" -> "b.pdf" [] OTHER -> "c.pdf"]
WorkerTag == [w \in Workers |-> CASE w = "w1" -> "x" [] w = "w2" -> "y" [] OTHER -> "z"]
WorkerStep == [w \in Workers |-> CASE w = "w1" -> "CLASSIFY" [] w = "w2" -> "APPEND" [] OTHER -> "MOVING"]

Goto(w, to) == pc' = [pc EXCEPT ![w] = to]

WGetInstance(w) ==
  /\ pc[w] = "idle"
  /\ getInstance
  /\ wm' = [wm EXCEPT ![w] = instance']
  /\ Goto(w, "track")
  /\ UNCHANGED <<usage, now, left, hashes, wret>>

WStartTracking(w) ==
  /\ pc[w] = "track"
  /\ startTracking(wm[w], SharedHash, WorkerName[w])
  /\ wret' = [wret EXCEPT ![w] = ret']
  /\ Goto(w, "tag")
  /\ UNCHANGED <<usage, now, left, hashes, wm>>

WAddTag(w) ==
  /\ pc[w] = "tag"
  /\ addTag(wm[w], wret[w], WorkerTag[w])
  /\ Goto(w, "log")
  /\ UNCHANGED <<usage, now, left, hashes, wm, wret>>

WAddAction(w) ==
  /\ pc[w] = "log"
  /\ addAction(wm[w], wret[w], WorkerStep[w], FALSE)
  /\ Goto(w, "done")
  /\ UNCHANGED <<usage, now, left, hashes, wm, wret>>

InitConc == Loaded /\ left = 0 /\ hashes = {SharedHash}

NextConc ==
  \/ \E w \in Workers : WGetInstance(w)
  \/ \E w \in Workers : WStartTracking(w)
  \/ \E w \in Workers : WAddTag(w)
  \/ \E w \in Workers : WAddAction(w)
  \/ Tick

SpecConc == InitConc /\ [][NextConc]_vars

-----------------------------------------------------------------------------
(* Concurrent completion of one stage.  Every worker gets the instance and      *)
(* tracks SharedHash; the starter then logs the start stage of a pair, and each *)
(* other worker, once the start entry is there, logs the done stage of that     *)
(* pair as completed.                                                           *)

Starter == "w1"
StagePairs == {<<"CLASSIFY", "CLASSIFY_DONE">>, <<"APPEND", "APPEND_DONE">>}

PStart(w) ==
  /\ w = Starter
  /\ pc[w] = "tag"
  /\ \E pair \in StagePairs : addAction(wm[w], wret[w], pair[1], FALSE)
  /\ Goto(w, "done")
  /\ UNCHANGED <<usage, now, left, hashes, wm, wret>>

PComplete(w) ==
  /\ w # Starter
  /\ pc[w] = "tag"
  /\ pc[Starter] = "done"
  /\ \E pair \in StagePairs :
       /\ Has(Get(managers[wm[w]], wret[w]).logs, pair[1])
       /\ addAction(wm[w], wret[w], pair[2], TRUE)
  /\ Goto(w, "done")
  /\ UNCHANGED <<usage, now, left, hashes, wm, wret>>

NextPair ==
  \/ \E w \in Workers : WGetInstance(w)
  \/ \E w \in Workers : WStartTracking(w)
  \/ \E w \in Workers : PStart(w)
  \/ \E w \in Workers : PComplete(w)
  \/ Tick

SpecPair == InitConc /\ [][NextPair]_vars

-----------------------------------------------------------------------------
(* incrementAndLogTokenUsage(userId, tokens) *)

(* the call: the function runs up to `await incrementTokenUsage(userId, tokens)` *)
incrementAndLogTokenUsage(u, userId, tokens) ==
  [u EXCEPT !.pc = "await", !.args = Some([userId |-> userId, tokens |-> tokens])]

(* the awaited promise resolves to { remaining, usageError } *)
resume(u, remaining, usageError) ==
  [u EXCEPT !.pc = "check",
            !.outcome = Some([remaining |-> remaining, usageError |-> usageError])]

(* variant: the client is asked for when usageError is set *)
checkUsageInverted(u, client) ==
  IF u.outcome[1].usageError
    THEN [u EXCEPT !.client = client,
                   !.pc = IF client # Null THEN "capture" ELSE "return"]
    ELSE [u EXCEPT !.pc = "return"]

(* if (!usageError) { const client = PostHogClient(); if (client) ... } *)
checkUsage(u, client) ==
  IF ~u.outcome[1].usageError
    THEN [u EXCEPT !.client = client,
                   !.pc = IF client # Null THEN "capture" ELSE "return"]
    ELSE [u EXCEPT !.pc = "return"]

capture(u) ==
  [u EXCEPT !.pc = "return",
            !.events = Append(@, [distinctId |-> u.args[1].userId,
                                  event |-> "token_usage",
                                  properties |->
                                    [remaining |-> u.outcome[1].remaining]])]

return(u) ==
  [u EXCEPT !.pc = "done",
            !.result = Some([remaining |-> u.outcome[1].remaining,
                             usageError |-> u.outcome[1].usageError])]

RegistryVars == <<instance, managers, arrays, now, ret, left, hashes, wvars>>

UInvoke ==
  /\ usage.pc = "idle"
  /\ \E userId \in UserIds, tokens \in TokenAmounts :
       usage' = incrementAndLogTokenUsage(usage, userId, tokens)
  /\ UNCHANGED RegistryVars

UResume ==
  /\ usage.pc = "await"
  /\ \E remaining \in Remainings, usageError \in BOOLEAN :
       usage' = resume(usage, remaining, usageError)
  /\ UNCHANGED RegistryVars

UCheck ==
  /\ usage.pc = "check"
  /\ \E client \in {Null, "client"} : usage' = checkUsage(usage, client)
  /\ UNCHANGED RegistryVars

UCapture ==
  /\ usage.pc = "capture"
  /\ usage' = capture(usage)
  /\ UNCHANGED RegistryVars

UReturn ==
  /\ usage.pc = "return"
  /\ usage' = return(usage)
  /\ UNCHANGED RegistryVars

InitUsage == Loaded /\ left = 0 /\ hashes = Hashes

NextUsage ==
  \/ UInvoke
  \/ UResume
  \/ UCheck
  \/ UCapture
  \/ UReturn

SpecUsage == InitUsage /\ [][NextUsage]_vars

-----------------------------------------------------------------------------
(* Properties *)

Count(d, k) == Cardinality({i \in DOMAIN d : d[i].key = k})
Tracked(m, hash) == Has(managers[m], hash)
Logs(m, hash) == Get(managers[m], hash).logs
Plain(ts, completed) == [timestamp |-> ts, completed |-> completed, error |-> None]

(* C1: startTracking on an id that is already tracked leaves the registry       *)
(* unchanged (the one record of that id keeps every field, its tags and its    *)
(* log entries, originalName included) and returns the id.                      *)
C1_IdempotentCreation ==
  [][\A m \in Managers, hash \in Hashes, name \in Names :
       (Tracked(m, hash) /\ Call /\ startTracking(m, hash, name))
         => /\ managers' = managers
            /\ arrays' = arrays
            /\ Count(managers'[m], hash) = 1
            /\ ret' = hash]_vars

(* startTracking("h1", ...) has just returned on a record that was mutated before *)
C1_Witness ==
  \E m \in Managers :
    /\ Tracked(m, "h1")
    /\ Get(managers[m], "h1").status = "processing"
    /\ ret = "h1"

(* the done variant of a start stage, by the names of the Action catalog *)
DoneOf(S) ==
  CASE S = "MOVING_ATTACHMENT" -> "MOVING_ATTACHEMENT_DONE"
    [] S = "CLEANUP" -> "CLEANUP_DONE"
    [] S = "RENAME" -> "RENAME_DONE"
    [] S = "EXTRACT" -> "EXTRACT_DONE"
    [] S = "CLASSIFY" -> "CLASSIFY_DONE"
    [] S = "TAGGING" -> "TAGGING_DONE"
    [] S = "APPLYING_TAGS" -> "APPLYING_TAGS_DONE"
    [] S = "RECOMMEND_NAME" -> "RECOMMEND_NAME_DONE"
    [] S = "APPEND" -> "APPEND_DONE"
    [] S = "CONTAINER" -> "CONTAINER_DONE"
    [] S = "APPLYING_NAME" -> "APPLYING_NAME_DONE"
    [] S = "FORMATTING" -> "FORMATTING_DONE"
    [] S = "MOVING" -> "MOVING_DONE"
    [] S = "VALIDATE" -> "VALIDATE_DONE"

StagesWithDone ==
  { "CLEANUP", "RENAME", "EXTRACT", "MOVING_ATTACHMENT", "CLASSIFY", "TAGGING",
    "APPLYING_TAGS", "RECOMMEND_NAME", "APPEND", "CONTAINER", "APPLYING_NAME",
    "FORMATTING", "MOVING", "VALIDATE" }

(* the log of hash is what addAction(hash, S) leaves on a record without entries *)
StartedOnly(m, hash, S) ==
  /\ Tracked(m, hash)
  /\ Len(Logs(m, hash)) = 1
  /\ Logs(m, hash)[1].key = S
  /\ Logs(m, hash)[1].value = Plain(Logs(m, hash)[1].value.timestamp, FALSE)

(* C2: for every stage S that has a done variant, addAction(id, S) on a record  *)
(* without entries followed by addAction(id, S_DONE, true) leaves exactly one  *)
(* entry, keyed S, completed, with the timestamp of the first call.            *)
C2_Pairing ==
  [][\A m \in Managers, hash \in Hashes, S \in StagesWithDone :
       (StartedOnly(m, hash, S) /\ Call /\ addAction(m, hash, DoneOf(S), TRUE))
         => Logs(m, hash)' =
              << [key |-> S,
                  value |-> Plain(Logs(m, hash)[1].value.timestamp, TRUE)] >>]_vars

(* C3: addAction(id, X, true) whose paired start stage is missing from the      *)
(* pairing table or has no entry writes the entry of X itself (completed, the  *)
(* current timestamp), adds no other key and changes no other entry.           *)
C3_PairingMissFallback ==
  [][\A m \in Managers, hash \in Hashes, X \in Steps :
       ( /\ Tracked(m, hash)
         /\ \/ getBaseAction(X) = Undefined
            \/ ~Has(Logs(m, hash), getBaseAction(X))
         /\ Call
         /\ addAction(m, hash, X, TRUE) )
         => LET old == Logs(m, hash)
                new == Logs(m, hash)'
            IN /\ Has(new, X)
               /\ Get(new, X) = Plain(now \div TicksPerSecond, TRUE)
               /\ Keys(new) = Keys(old) \cup {X}
               /\ Len(new) = Cardinality(Keys(new))
               /\ \A k \in Keys(old) \ {X} : Get(new, k) = Get(old, k)
               /\ (old = <<>>) => (Len(new) = 1 /\ new[1].key = X)]_vars

(* a done stage logged under its own key, completed, next to an unrelated entry *)
C3_Witness ==
  \E m \in Managers :
    /\ Tracked(m, "h1")
    /\ Has(Logs(m, "h1"), "CLASSIFY_DONE")
    /\ Get(Logs(m, "h1"), "CLASSIFY_DONE").completed
    /\ ~Has(Logs(m, "h1"), "CLASSIFY")
    /\ Has(Logs(m, "h1"), "APPEND")

(* C4: addError(id, {stage: S, message, stack}) leaves the entry of S with      *)
(* completed = false, the current timestamp and exactly the supplied payload,  *)
(* whatever the entry was before; the entries of the other stages are kept.    *)
C4_ErrorOverwrite ==
  [][\A m \in Managers, hash \in Hashes, S \in Steps, msg \in Messages, stack \in Stacks :
       ( /\ Tracked(m, hash)
         /\ Call
         /\ addError(m, hash, [action |-> S, message |-> msg, stack |-> stack]) )
         => LET old == Logs(m, hash)
                new == Logs(m, hash)'
            IN /\ Has(new, S)
               /\ Get(new, S) =
                    [ timestamp |-> now \div TicksPerSecond, completed |-> FALSE,
                      error |-> Some([message |-> msg, stack |-> stack, action |-> S]) ]
               /\ Keys(new) = Keys(old) \cup {S}
               /\ Len(new) = Cardinality(Keys(new))
               /\ \A k \in Keys(old) \ {S} : Get(new, k) = Get(old, k)]_vars

(* an error entry that replaced an older entry of its stage: it sits before a   *)
(* later-inserted entry and carries a later timestamp                           *)
C4_Witness ==
  \E m \in Managers :
    /\ Tracked(m, "h1")
    /\ Len(Logs(m, "h1")) = 2
    /\ Logs(m, "h1")[1].value.error # None
    /\ ~Logs(m, "h1")[1].value.completed
    /\ Logs(m, "h1")[1].value.timestamp > Logs(m, "h1")[2].value.timestamp

NoRepeat(seq) == \A i, j \in DOMAIN seq : seq[i] = seq[j] => i = j
(* the stages asked about: those the callers log, and one that is never logged *)
QuerySteps == Steps \cup {"COMPLETED"}
Range(seq) == {seq[i] : i \in DOMAIN seq}

(* C2, for the stages the pairing table of getBaseAction holds: the pair leaves *)
(* one completed entry keyed by the start stage, with its first timestamp.      *)
C2_PairingInTable ==
  [][\A m \in Managers, hash \in Hashes, S \in StagesWithDone :
       ( /\ getBaseAction(DoneOf(S)) = S
         /\ StartedOnly(m, hash, S)
         /\ Call
         /\ addAction(m, hash, DoneOf(S), TRUE) )
         => Logs(m, hash)' =
              << [key |-> S,
                  value |-> Plain(Logs(m, hash)[1].value.timestamp, TRUE)] >>]_vars

(* C5: in every reachable state no tracked record holds a tag more than once.   *)
C5_NoDuplicateTags ==
  \A m \in Managers, hash \in Hashes :
    Tracked(m, hash) => NoRepeat(arrays[Get(managers[m], hash).tags])

(* C5, for addTag alone: a tag that is present is not added again, a tag that   *)
(* is absent is appended once.                                                  *)
C5_AddTagNoDuplicate ==
  [][\A m \in Managers, hash \in Hashes, t \in Tags :
       (Tracked(m, hash) /\ Call /\ addTag(m, hash, t))
         => LET old == arrays[Get(managers[m], hash).tags]
                new == arrays'[Get(managers'[m], hash).tags]
            IN new = IF t \in Range(old) THEN old ELSE Append(old, t)]_vars

(* a call of a mutator or event method on hash, with any arguments (the array   *)
(* handed to setTags is one the caller shares already or one it has just made)  *)
MutatorCall(m, hash) ==
  \/ \E f \in Files : setFile(m, hash, f)
  \/ \E st \in FileStatus : setStatus(m, hash, st)
  \/ \E t \in Tags : addTag(m, hash, t)
  \/ \E ref \in DOMAIN arrays : setTags(m, hash, ref) /\ arrays' = arrays
  \/ /\ setTags(m, hash, Len(arrays) + 1)
     /\ \/ arrays' = arrays
        \/ \E list \in TagLists : arrays' = Append(arrays, list)
  \/ \E c \in Strings : setClassification(m, hash, c)
  \/ \E b \in BOOLEAN : setFormatted(m, hash, b)
  \/ \E np \in Strings : setNewPath(m, hash, np)
  \/ \E nn \in Strings : setNewName(m, hash, nn)
  \/ \E step \in Steps, completed \in BOOLEAN : addAction(m, hash, step, completed)
  \/ \E step \in Steps, msg \in Messages, stack \in Stacks :
       addError(m, hash, [action |-> step, message |-> msg, stack |-> stack])

(* the queries report nothing about hash *)
ReportsNothing(m, hash) ==
  /\ getRecord(m, hash) = None
  /\ ~hasErrors(m, hash)
  /\ \A step \in Steps : ~hasErrorsStep(m, hash, step)
  /\ getStepErrors(m, hash) = <<>>
  /\ getLastError(m, hash) = None
  /\ getLastStep(m, hash) = Null

(* C6: a mutator or event call with an id that was never tracked returns        *)
(* normally, creates no record and leaves the registry unchanged; the queries   *)
(* on that id report nothing, before and after the call.                        *)
C6_UnknownIdInert ==
  [][\A m \in Managers, hash \in Hashes :
       (~Tracked(m, hash) /\ Call /\ MutatorCall(m, hash))
         => /\ managers' = managers
            /\ \A ref \in DOMAIN arrays : arrays'[ref] = arrays[ref]
            /\ ret' = Void
            /\ ReportsNothing(m, hash)
            /\ ReportsNothing(m, hash)']_vars

(* two calls were made and nothing is tracked: both were mutator or event calls  *)
(* with an untracked id (startTracking would have inserted a record)            *)
C6_Witness ==
  /\ instance # 0
  /\ managers[instance] = <<>>
  /\ arrays = <<>>
  /\ left = MaxOps - 2
  /\ ret = Void

(* C7: getRecordsWithErrors() is exactly the tracked records with an entry      *)
(* that carries an error, each once; getRecordsByStep(stage) is exactly the     *)
(* tracked records with an entry keyed by stage, whatever its state.            *)
C7_AggregateQueries ==
  \A m \in Managers :
    LET all == {Get(managers[m], h) : h \in Keys(managers[m])}
    IN /\ NoRepeat(getRecordsWithErrors(m))
       /\ Range(getRecordsWithErrors(m)) =
            {r \in all : \E s \in Keys(r.logs) : Get(r.logs, s).error # None}
       /\ \A stage \in QuerySteps :
            /\ NoRepeat(getRecordsByStep(m, stage))
            /\ Range(getRecordsByStep(m, stage)) = {r \in all : stage \in Keys(r.logs)}

(* "h1" has an error entry, "h2" is tracked without entries: one record with    *)
(* errors, one record at the stage of the error                                 *)
C7_Witness ==
  \E m \in Managers :
    /\ Tracked(m, "h1") /\ Tracked(m, "h2")
    /\ Has(Logs(m, "h1"), "APPEND") /\ Get(Logs(m, "h1"), "APPEND").error # None
    /\ Logs(m, "h2") = <<>>
    /\ Len(getAllRecords(m)) = 2
    /\ Len(getRecordsWithErrors(m)) = 1
    /\ Len(getRecordsByStep(m, "APPEND")) = 1

(* the stages of hash whose entry carries an error *)
ErrorStages(m, hash) == {s \in Keys(Logs(m, hash)) : Get(Logs(m, hash), s).error # None}

(* C8: hasErrors(id, stage) holds exactly when the entry of stage carries an    *)
(* error, hasErrors(id) exactly when some entry does; getStepErrors(id) lists   *)
(* each such entry once, with its error, in the insertion order of the stage    *)
(* keys; getLastError(id) is its last element, or none when it is empty.        *)
C8_ErrorQueries ==
  \A m \in Managers, hash \in Hashes :
    Tracked(m, hash) =>
      LET logs == Logs(m, hash)
          errs == getStepErrors(m, hash)
          stages == ErrorStages(m, hash)
      IN /\ \A stage \in QuerySteps : hasErrorsStep(m, hash, stage) <=> stage \in stages
         /\ hasErrors(m, hash) <=> stages # {}
         /\ {e.action : e \in Range(errs)} = stages
         /\ Len(errs) = Cardinality(stages)
         /\ \A i \in DOMAIN errs : Some(errs[i]) =
              << [action |-> errs[i].action, error |-> Get(logs, errs[i].action).error] >>
         /\ \A i, j \in DOMAIN errs :
              i < j => IndexOf(logs, errs[i].action) < IndexOf(logs, errs[j].action)
         /\ getLastError(m, hash) =
              IF stages = {} THEN None
              ELSE Some(CHOOSE e \in Range(errs) :
                     \A s \in stages : IndexOf(logs, s) <= IndexOf(logs, e.action))

(* two error entries and a plain one between them *)
C8_Witness ==
  \E m \in Managers :
    /\ Tracked(m, "h1")
    /\ Len(Logs(m, "h1")) = 3
    /\ Logs(m, "h1")[1].value.error # None
    /\ Logs(m, "h1")[2].value.error = None
    /\ Logs(m, "h1")[3].value.error # None
    /\ Len(getStepErrors(m, "h1")) = 2

(* C9: for a tracked id with entries, getLastStep(id) is a stage that has an    *)
(* entry whose timestamp is not earlier than that of any other entry; it is     *)
(* none exactly when the id is unknown or the record has no entries.            *)
C9_LastStep ==
  \A m \in Managers, hash \in Hashes :
    LET last == getLastStep(m, hash)
    IN IF Tracked(m, hash) /\ Logs(m, hash) # <<>>
         THEN /\ last \in Keys(Logs(m, hash))
              /\ \A k \in Keys(Logs(m, hash)) :
                   Get(Logs(m, hash), last).timestamp * TicksPerSecond
                     >= Get(Logs(m, hash), k).timestamp * TicksPerSecond
         ELSE last = Null

(* the latest entry is not the last inserted one *)
C9_Witness ==
  \E m \in Managers :
    /\ Tracked(m, "h1")
    /\ Len(Logs(m, "h1")) = 2
    /\ Logs(m, "h1")[1].value.timestamp > Logs(m, "h1")[2].value.timestamp
    /\ getLastStep(m, "h1") = Logs(m, "h1")[1].key

(* C10: with several workers tracking the same id, interleaved with each other  *)
(* and with their mutators, there is one manager and at most one record of the  *)
(* id (exactly one once a worker has tracked it), every caller is handed the    *)
(* same id, and what a worker has added to the record is still there whatever   *)
(* startTracking calls came later.                                              *)
C10_AtomicCreation ==
  /\ Len(managers) <= 1
  /\ \A w \in Workers :
       pc[w] \in {"tag", "log", "done"} =>
         /\ wret[w] = SharedHash
         /\ wm[w] = instance
         /\ Len(managers[instance]) = 1
         /\ Count(managers[instance], SharedHash) = 1
         /\ Get(managers[instance], SharedHash).originalName \in Range(WorkerName)
  /\ \A w \in Workers :
       pc[w] \in {"log", "done"} =>
         WorkerTag[w] \in Range(arrays[Get(managers[instance], SharedHash).tags])
  /\ \A w \in Workers :
       pc[w] = "done" => Has(Logs(instance, SharedHash), WorkerStep[w])

(* "w2" has just been handed the id by startTracking, after "w1" created the    *)
(* record, tagged it and logged its step                                        *)
C10_Witness ==
  /\ pc["w1"] = "done"
  /\ pc["w2"] = "tag"
  /\ ret = SharedHash
  /\ wret["w2"] = SharedHash
  /\ Get(managers[instance], SharedHash).originalName = "a.pdf"
  /\ arrays[Get(managers[instance], SharedHash).tags] = <<"x">>

(* the record of SharedHash holds one entry, the plain start entry of `pair`,   *)
(* written at second ts, completed or not                                       *)
OneStartEntry(logs, pair, ts) ==
  /\ Len(logs) = 1
  /\ logs[1].key = pair[1]
  /\ logs[1].value.timestamp = ts
  /\ logs[1].value.error = None

(* C11: when the start entry of S exists and several workers call               *)
(* addAction(id, S_DONE, true) concurrently, after each of these calls, in      *)
(* every interleaving, the record holds exactly one entry, keyed S, completed,  *)
(* with its first timestamp, and no entry keyed S_DONE (a second completion     *)
(* changes nothing).                                                            *)
C11_AtomicPairing ==
  [][\A w \in Workers \ {Starter}, pair \in StagePairs :
       ( /\ pc[w] = "tag"
         /\ pc[Starter] = "done"
         /\ Has(Logs(instance, SharedHash), pair[1])
         /\ PComplete(w) )
         => LET ts == Get(Logs(instance, SharedHash), pair[1]).timestamp
            IN /\ OneStartEntry(Logs(instance, SharedHash)', pair, ts)
               /\ Logs(instance, SharedHash)'[1].value.completed
               /\ ~Has(Logs(instance, SharedHash)', pair[2])]_vars

(* C11, for the pairs the table of getBaseAction holds *)
C11_AtomicPairingInTable ==
  [][\A w \in Workers \ {Starter}, pair \in StagePairs :
       ( /\ getBaseAction(pair[2]) = pair[1]
         /\ pc[w] = "tag"
         /\ pc[Starter] = "done"
         /\ Has(Logs(instance, SharedHash), pair[1])
         /\ PComplete(w) )
         => LET ts == Get(Logs(instance, SharedHash), pair[1]).timestamp
            IN /\ OneStartEntry(Logs(instance, SharedHash)', pair, ts)
               /\ Logs(instance, SharedHash)'[1].value.completed
               /\ ~Has(Logs(instance, SharedHash)', pair[2])]_vars

(* C12: a record, once tracked, is there in every later state, under the key    *)
(* that equals its id, with the same id and the same originalName.              *)
C12_RecordLifecycle ==
  [][\A m \in Managers, hash \in Hashes :
       Tracked(m, hash)
         => /\ m \in DOMAIN managers'
            /\ Has(managers'[m], hash)
            /\ Count(managers'[m], hash) = 1
            /\ Get(managers[m], hash).id = hash
            /\ Get(managers'[m], hash).id = hash
            /\ Get(managers'[m], hash).originalName = Get(managers[m], hash).originalName]_vars

(* "h1" was tracked as "a.pdf", renamed, and startTracking("h1", ...) was       *)
(* called again as the last of the calls                                        *)
C12_Witness ==
  \E m \in Managers :
    /\ Tracked(m, "h1")
    /\ Get(managers[m], "h1").originalName = "a.pdf"
    /\ Get(managers[m], "h1").newName = "s1"
    /\ ret = "h1"
    /\ left = 0

(* C13: startTracking(id, originalName) returns id; on an untracked id it       *)
(* inserts, after the records there are, one record with that id and            *)
(* originalName, status queued, no tags, no entries, no file, formatted false,  *)
(* no classification, newPath or newName; on a tracked id it inserts nothing.   *)
C13_InitialRecord ==
  [][\A m \in Managers, hash \in Hashes, name \in Names :
       (Call /\ startTracking(m, hash, name))
         => /\ ret' = hash
            /\ \A ref \in DOMAIN arrays : arrays'[ref] = arrays[ref]
            /\ IF Tracked(m, hash)
                 THEN Len(managers'[m]) = Len(managers[m])
                 ELSE LET new == managers'[m][Len(managers[m]) + 1]
                      IN /\ Len(managers'[m]) = Len(managers[m]) + 1
                         /\ \A i \in DOMAIN managers[m] : managers'[m][i] = managers[m][i]
                         /\ new.key = hash
                         /\ new.value.id = hash
                         /\ new.value.originalName = name
                         /\ new.value.status = "queued"
                         /\ arrays'[new.value.tags] = <<>>
                         /\ new.value.tags \notin DOMAIN arrays
                         /\ new.value.logs = <<>>
                         /\ new.value.file = "null"
                         /\ new.value.formatted = FALSE
                         /\ new.value.classification = "undefined"
                         /\ new.value.newPath = "undefined"
                         /\ new.value.newName = "undefined"]_vars

(* "h2" has just been tracked as "b.pdf", after "h1" was tracked and changed *)
C13_Witness ==
  \E m \in Managers :
    /\ Len(managers[m]) = 2
    /\ managers[m][1].key = "h1"
    /\ managers[m][1].value.status = "processing"
    /\ managers[m][2].key = "h2"
    /\ managers[m][2].value.originalName = "b.pdf"
    /\ managers[m][2].value.status = "queued"
    /\ ret = "h2"

(* the record of hash as a reader sees it: the tags are the array's elements *)
RecordView(m, hash) == [Get(managers[m], hash) EXCEPT !.tags = arrays[@]]
SameButLogs(r1, r2) == [r1 EXCEPT !.logs = <<>>] = [r2 EXCEPT !.logs = <<>>]

(* what a call of a mutator on the tracked hash h changes of the record of h *)
OwnFieldOnly(m, h) ==
  LET old == RecordView(m, h)
      new == RecordView(m, h)'
  IN /\ \A f \in Files : setFile(m, h, f) => new = [old EXCEPT !.file = f]
     /\ \A st \in FileStatus : setStatus(m, h, st) => new = [old EXCEPT !.status = st]
     /\ \A t \in Tags :
          addTag(m, h, t)
            => new = [old EXCEPT !.tags = IF t \in Range(@) THEN @ ELSE Append(@, t)]
     /\ \A ref \in DOMAIN arrays :
          (setTags(m, h, ref) /\ arrays' = arrays) => new = [old EXCEPT !.tags = arrays[ref]]
     /\ \A list \in TagLists :
          (setTags(m, h, Len(arrays) + 1) /\ arrays' = Append(arrays, list))
            => new = [old EXCEPT !.tags = list]
     /\ \A c \in Strings :
          setClassification(m, h, c) => new = [old EXCEPT !.classification = c]
     /\ \A b \in BOOLEAN : setFormatted(m, h, b) => new = [old EXCEPT !.formatted = b]
     /\ \A np \in Strings : setNewPath(m, h, np) => new = [old EXCEPT !.newPath = np]
     /\ \A nn \in Strings : setNewName(m, h, nn) => new = [old EXCEPT !.newName = nn]
     /\ \A step \in Steps, completed \in BOOLEAN :
          addAction(m, h, step, completed) => SameButLogs(new, old)
     /\ \A step \in Steps, msg \in Messages, stack \in Stacks :
          addError(m, h, [action |-> step, message |-> msg, stack |-> stack])
            => SameButLogs(new, old)

(* C14: a mutator called with the tracked id h changes only its own field of    *)
(* the record of h (addAction and addError only the entries), and no field,     *)
(* tag or entry of any other tracked record g, also after the same array was    *)
(* given to setTags for two ids.                                                *)
C14_MutatorFrame ==
  [][\A m \in Managers, h \in Hashes :
       (Tracked(m, h) /\ Call /\ MutatorCall(m, h))
         => /\ OwnFieldOnly(m, h)
            /\ \A g \in Hashes \ {h} :
                 Tracked(m, g) => RecordView(m, g)' = RecordView(m, g)]_vars

(* C14, while the tracked records hold different arrays: the frame holds *)
C14_MutatorFrameUnshared ==
  [][\A m \in Managers, h \in Hashes :
       ( /\ Tracked(m, h)
         /\ \A g \in Hashes \ {h} :
              Tracked(m, g) => Get(managers[m], g).tags # Get(managers[m], h).tags
         /\ Call
         /\ MutatorCall(m, h) )
         => /\ OwnFieldOnly(m, h)
            /\ \A g \in Hashes \ {h} :
                 Tracked(m, g) => RecordView(m, g)' = RecordView(m, g)]_vars

(* C15: addAction(id, X) with completed = false on a stage X that has an entry  *)
(* (started, completed or with an error) replaces it by a fresh one: current    *)
(* timestamp, not completed, no error; the number of entries and the other     *)
(* entries are unchanged and hasErrors(id, X) is false afterwards.             *)
C15_RelogReplaces ==
  [][\A m \in Managers, hash \in Hashes, X \in Steps :
       ( /\ Tracked(m, hash)
         /\ Has(Logs(m, hash), X)
         /\ Call
         /\ addAction(m, hash, X, FALSE) )
         => LET old == Logs(m, hash)
                new == Logs(m, hash)'
            IN /\ Get(new, X) = Plain(now \div TicksPerSecond, FALSE)
               /\ Len(new) = Len(old)
               /\ \A i \in DOMAIN old : new[i].key = old[i].key
               /\ \A k \in Keys(old) \ {X} : Get(new, k) = Get(old, k)
               /\ ~hasErrorsStep(m, hash, X)']_vars

(* a start logged again a second later than the error of another stage that was *)
(* inserted after it: the fresh entry keeps the first position                  *)
C15_Witness ==
  \E m \in Managers :
    /\ Tracked(m, "h1")
    /\ Len(Logs(m, "h1")) = 2
    /\ Logs(m, "h1")[1].value = Plain(1, FALSE)
    /\ Logs(m, "h1")[2].value.timestamp = 0
    /\ Logs(m, "h1")[2].value.error # None

FailedAndCompleted(m, hash, k) ==
  /\ Tracked(m, hash)
  /\ Has(Logs(m, hash), k)
  /\ Get(Logs(m, hash), k).error # None
  /\ Get(Logs(m, hash), k).completed

(* C16, as stated: in every state reachable by startTracking, addAction and     *)
(* addError calls, every entry that carries an error has completed = false.    *)
C16_ErrorNeverCompleted ==
  \A m \in Managers, hash \in Hashes, k \in Steps : ~FailedAndCompleted(m, hash, k)

(* C16, amended: an entry that carries an error becomes completed only by       *)
(* addAction(id, D, true) for a done stage D whose paired start stage, by the   *)
(* table of getBaseAction, is the key of that entry, which already carried the  *)
(* error; no other call writes an entry with both an error and completed set.   *)
C16_ErrorCompletedOnlyByPairing ==
  [][\A m \in Managers, hash \in Hashes, k \in Steps :
       (FailedAndCompleted(m, hash, k)' /\ ~FailedAndCompleted(m, hash, k))
         => /\ Tracked(m, hash)
            /\ Has(Logs(m, hash), k)
            /\ Get(Logs(m, hash), k).error = Get(Logs(m, hash)', k).error
            /\ Get(Logs(m, hash), k).timestamp = Get(Logs(m, hash)', k).timestamp
            /\ Call
            /\ \E D \in Steps : getBaseAction(D) = k /\ addAction(m, hash, D, TRUE)]_vars

(* the errored entry of CLASSIFY after addAction(id, CLASSIFY_DONE, true) *)
C16_Witness ==
  \E m \in Managers : FailedAndCompleted(m, "h1", "CLASSIFY")

(* what getLastError returns for the error that addError(id, {S, msg, stack}) attaches *)
Attached(S, msg, stack) ==
  Some([action |-> S,
        error |-> Some([message |-> msg, stack |-> stack, action |-> S])])

(* C17, as stated: getLastError(id) returns the error attached by the most      *)
(* recent addError call whose error is still present; so right after           *)
(* addError(id, e), also on a stage that already had an entry, it returns e.    *)
C17_LastErrorMostRecent ==
  [][\A m \in Managers, hash \in Hashes, S \in Steps, msg \in Messages, stack \in Stacks :
       ( /\ Tracked(m, hash)
         /\ Call
         /\ addError(m, hash, [action |-> S, message |-> msg, stack |-> stack]) )
         => getLastError(m, hash)' = Attached(S, msg, stack)]_vars

(* C17, amended: getLastError(id) returns the error of the error entry whose    *)
(* stage was inserted last. After addError(id, e) on stage S it returns e when  *)
(* S is new or no error entry follows the entry of S in insertion order;       *)
(* otherwise S keeps its position and getLastError(id) returns what it returned *)
(* before the call.                                                            *)
C17_LastErrorByInsertion ==
  [][\A m \in Managers, hash \in Hashes, S \in Steps, msg \in Messages, stack \in Stacks :
       ( /\ Tracked(m, hash)
         /\ Call
         /\ addError(m, hash, [action |-> S, message |-> msg, stack |-> stack]) )
         => LET old == Logs(m, hash)
                later == {k \in ErrorStages(m, hash) \ {S} :
                            Has(old, S) /\ IndexOf(old, k) > IndexOf(old, S)}
            IN getLastError(m, hash)' =
                 IF later = {} THEN Attached(S, msg, stack) ELSE getLastError(m, hash)]_vars

(* addError was called again on the first of two errored stages, a second after *)
(* the error of the second stage, and getLastError still returns the second     *)
C17_Witness ==
  \E m \in Managers :
    /\ Tracked(m, "h1")
    /\ Len(Logs(m, "h1")) = 2
    /\ Logs(m, "h1")[1].value.error # None
    /\ Logs(m, "h1")[2].value.error # None
    /\ Logs(m, "h1")[1].value.timestamp > Logs(m, "h1")[2].value.timestamp
    /\ getLastError(m, "h1") =
         Some([action |-> Logs(m, "h1")[2].key, error |-> Logs(m, "h1")[2].value.error])

(* the call writes the entry of X of the tracked hash: addError, or addAction    *)
(* outside its branch that marks the paired start entry in place                 *)
WritesEntry(m, hash, X) ==
  /\ Tracked(m, hash)
  /\ Call
  /\ \/ \E completed \in BOOLEAN :
          /\ ~(completed /\ getBaseAction(X) # Undefined
                 /\ Has(Logs(m, hash), getBaseAction(X)))
          /\ addAction(m, hash, X, completed)
     \/ \E msg \in Messages, stack \in Stacks :
          addError(m, hash, [action |-> X, message |-> msg, stack |-> stack])

(* C18: with a clock of second precision that never goes backwards, after a     *)
(* call that created or replaced the entry of stage X, getLastStep(id) is X.    *)
C18_LastStepMostRecent ==
  [][\A m \in Managers, hash \in Hashes, X \in Steps :
       WritesEntry(m, hash, X) => getLastStep(m, hash)' = X]_vars

(* C18, when every other entry was written in an earlier second: it holds *)
C18_LastStepLaterSecond ==
  [][\A m \in Managers, hash \in Hashes, X \in Steps :
       ( /\ WritesEntry(m, hash, X)
         /\ \A k \in Keys(Logs(m, hash)) \ {X} :
              Get(Logs(m, hash), k).timestamp < now \div TicksPerSecond )
         => getLastStep(m, hash)' = X]_vars

(* C19: for every tracked id the four error views agree: hasErrors(id), the     *)
(* record being in getRecordsWithErrors(), getStepErrors(id) being non-empty   *)
(* and getLastError(id) being present; and every stage that getStepErrors(id)  *)
(* lists satisfies hasErrors(id, stage).                                        *)
C19_ErrorViewsAgree ==
  \A m \in Managers, hash \in Hashes :
    Tracked(m, hash) =>
      LET errs == getStepErrors(m, hash)
          listed == Get(managers[m], hash) \in Range(getRecordsWithErrors(m))
      IN /\ hasErrors(m, hash) <=> listed
         /\ hasErrors(m, hash) <=> (Len(errs) > 0)
         /\ hasErrors(m, hash) <=> (getLastError(m, hash) # None)
         /\ \A i \in DOMAIN errs : hasErrorsStep(m, hash, errs[i].action)

(* two tracked records, the first inserted one without an error, the other with *)
(* an error while its status is still "queued"                                  *)
C19_Witness ==
  \E m \in Managers :
    /\ Len(managers[m]) = 2
    /\ ~hasErrors(m, managers[m][1].key)
    /\ hasErrors(m, managers[m][2].key)
    /\ managers[m][2].value.status = "queued"
    /\ Len(getRecordsWithErrors(m)) = 1

(* C20: incrementAndLogTokenUsage captures at most one event; an event is       *)
(* captured only when incrementTokenUsage reported no usageError and a client   *)
(* was available, it is a "token_usage" event for userId carrying remaining;    *)
(* and the function returns, also on usageError, the {remaining, usageError}    *)
(* pair it obtained from incrementTokenUsage.                                   *)
C20_TokenUsage ==
  /\ Len(usage.events) <= 1
  /\ \A i \in DOMAIN usage.events :
       /\ usage.outcome # None
       /\ ~usage.outcome[1].usageError
       /\ usage.client = "client"
       /\ usage.events[i] =
            [distinctId |-> usage.args[1].userId,
             event |-> "token_usage",
             properties |-> [remaining |-> usage.outcome[1].remaining]]
  /\ (usage.result # None) <=> (usage.pc = "done")
  /\ usage.pc = "done" => usage.result = usage.outcome

(* the function has returned after capturing the event of a user with nothing left *)
C20_Witness ==
  /\ usage.pc = "done"
  /\ Len(usage.events) = 1
  /\ usage.events[1].properties.remaining = 0
  /\ usage.result = Some([remaining |-> 0, usageError |-> FALSE])

(* the function has returned the pair on usageError, without an event *)
C20_WitnessUsageError ==
  /\ usage.pc = "done"
  /\ usage.events = <<>>
  /\ usage.result # None
  /\ usage.result[1].usageError

====
